---- MODULE Spec2Model ----
(***************************************************************************)
(* Model of packages/test-runner/src/testGenerator.ts: generateTests, the  *)
(* grep filter, the configuration matrix expansion, the worker hash and    *)
(* filterOnly.                                                             *)
(*                                                                         *)
(* Strings are sequences of characters (titles, grep patterns, fixture     *)
(* locations) or of tokens (configuration strings and worker keys, whose   *)
(* tokens are fixture names, fixture values and the literal pieces of the  *)
(* templates of lines 75, 76, 150 and 151).                                *)
(***************************************************************************)
EXTENDS Integers, Sequences, FiniteSets, TLC

VARIABLES
  suites,         \* argument `suites`: the top-level SuiteDeclarations, in order
  config,         \* argument `config`: [grep, repeatEach]
  parent,         \* declaration -> its parent suite (TOP for a top-level suite)
  title,          \* declaration -> its own title
  only,           \* declaration -> its _only flag
  fn,             \* test -> what fixturesForCallback(test.fn) does
  matrix,         \* fixture name -> declared domain; DOMAIN matrix = the names that have one
  registrations,  \* fixture name -> [scope, location], as seen by the current file
  tree,           \* [suites, tests]: every suite's `suites` and `tests` lists
  runs,           \* test -> its `runs` list
  grep,           \* the RegExp object of line 28 (present = FALSE for null)
  pc,             \* position inside generateTests
  si,             \* index of the current suite in `suites`
  pending,        \* tests of suite._allTests() the inner loop has not reached yet
  calls,          \* number of generateTests calls that have returned
  skipped,        \* tests line 41 skipped in the current call
  resolved,       \* test -> local `fixtures` when the current call last processed it
  called,         \* tests whose fn was handed to fixturesForCallback in the current call
  runsBefore,     \* the run lists at the start of the current call
  returned        \* the run lists at each return of generateTests, oldest first

vars == <<suites, config, parent, title, only, fn, matrix, registrations, tree,
          runs, grep, pc, si, pending, calls, skipped, resolved, called,
          runsBefore, returned>>

inputs == <<suites, config, parent, title, only, fn, matrix>>

\* ------------------------------------------------------------------ bounds

MaxRepeat == 2
MaxCalls == 2

\* ------------------------------------------------------------- declarations

TOP == "top"
ROOT == "root"

SuiteIds == {"s1", "s2", "s3"}
TestIds == {"t1", "t2", "t3"}
SuiteOrder == <<"s1", "s2", "s3">>
TestOrder == <<"t1", "t2", "t3">>

\* The file of a top-level suite.
FileOf(suite) == IF suite = "s1" THEN "fileA" ELSE "fileB"

FixtureNames == {"w1", "w2", "p", "g1", "g2"}

\* ---------------------------------------------------------------- sequences

Range(s) == {s[i] : i \in 1..Len(s)}

RECURSIVE Flatten(_)
Flatten(ss) == IF ss = <<>> THEN <<>> ELSE Head(ss) \o Flatten(Tail(ss))

RECURSIVE Join(_, _)
Join(ss, sep) ==
  IF ss = <<>> THEN <<>>
  ELSE IF Len(ss) = 1 THEN ss[1]
  ELSE ss[1] \o sep \o Join(Tail(ss), sep)

\* Every duplicate-free sequence over S.
RECURSIVE DistinctSeqs(_)
DistinctSeqs(S) ==
  {<<>>} \cup UNION {{<<x>> \o s : s \in DistinctSeqs(S \ {x})} : x \in S}

Min(S) == CHOOSE x \in S : \A y \in S : x <= y

\* ------------------------------------------------------------ the grep filter

\* Line 27: config.grep.match(/^\/(.*)\/(g|i|)$|.*/). has1 tells whether group 1
\* took part in the match; the second alternative matches the whole input.
GrepMatch(s) ==
  LET n == Len(s)
  IN IF n >= 2 /\ s[1] = "/" /\ s[n] = "/"
       THEN [m0 |-> s, has1 |-> TRUE, m1 |-> SubSeq(s, 2, n - 1), m2 |-> <<>>]
     ELSE IF n >= 3 /\ s[1] = "/" /\ s[n - 1] = "/" /\ s[n] \in {"g", "i"}
       THEN [m0 |-> s, has1 |-> TRUE, m1 |-> SubSeq(s, 2, n - 2), m2 |-> <<s[n]>>]
     ELSE [m0 |-> s, has1 |-> FALSE, m1 |-> <<>>, m2 |-> <<>>]

NoRegExp == [present |-> FALSE, source |-> <<>>, flags |-> <<>>, lastIndex |-> 0]

\* Lines 25-29: grep stays null for a falsy config.grep; otherwise
\* new RegExp(match[1] || match[0], match[2]).
ParseGrep(s) ==
  IF s = <<>> THEN NoRegExp
  ELSE LET match == GrepMatch(s)
       IN [present |-> TRUE,
           source |-> IF match.has1 /\ match.m1 # <<>> THEN match.m1 ELSE match.m0,
           flags |-> match.m2,
           lastIndex |-> 0]

\* Case folding of the i flag.
Canonical(c) == IF c = "A" THEN "a" ELSE IF c = "B" THEN "b" ELSE c

CharEq(flags, c, d) == IF "i" \in Range(flags) THEN Canonical(c) = Canonical(d) ELSE c = d

\* The source (literal characters only) occurs in str at 0-based offset p.
MatchesAt(re, str, p) ==
  /\ p + Len(re.source) <= Len(str)
  /\ \A k \in 1..Len(re.source) : CharEq(re.flags, re.source[k], str[p + k])

\* Offset of the first occurrence at or after `from`, -1 when there is none.
FirstMatch(re, str, from) ==
  LET at == {p \in from..Len(str) : MatchesAt(re, str, p)}
  IN IF at = {} THEN -1 ELSE Min(at)

\* RegExp.prototype.test as line 40 calls it: a global regexp searches from
\* lastIndex and moves it; any other searches from the start and leaves it.
RegExpTest(re, str) ==
  IF "g" \in Range(re.flags)
    THEN IF re.lastIndex > Len(str)
           THEN [result |-> FALSE, lastIndex |-> 0]
         ELSE LET p == FirstMatch(re, str, re.lastIndex)
              IN IF p = -1
                   THEN [result |-> FALSE, lastIndex |-> 0]
                 ELSE [result |-> TRUE, lastIndex |-> p + Len(re.source)]
  ELSE [result |-> FirstMatch(re, str, 0) # -1, lastIndex |-> re.lastIndex]

\* ------------------------------------------------- fixtures and registrations

\* rerunRegistrations(file): the registry as the file sees it. Both files
\* register the same names; fileB registers w2 from a place of its own.
RegistryOf(file) ==
  [name \in FixtureNames |->
     IF name = "w1" THEN [scope |-> "worker", location |-> <<"x">>]
     ELSE IF name = "w2"
       THEN [scope |-> "worker",
             location |-> IF file = "fileA" THEN <<"y">> ELSE <<"q">>]
     ELSE IF name = "p" THEN [scope |-> "test", location |-> <<"z">>]
     ELSE IF name = "g1" THEN [scope |-> "worker", location |-> <<"u">>]
     ELSE [scope |-> "test", location |-> <<"v">>]]

\* Lines 43-49: fixtures stays [] when fixturesForCallback throws.
FixturesCaughtPartial(test) == fn[test].fixtures

Fixtures(test) == IF fn[test].throws THEN <<>> ELSE fn[test].fixtures

\* SHA-1 as a collision-free digest of the bytes fed to it.
Sha1Hex(bytes) == <<"sha1">> \o bytes

\* Lines 135-145, without the scope test of lines 140-141.
HashOfAllLocations(fixtures) ==
  Sha1Hex(Flatten([k \in 1..Len(fixtures) |-> registrations[fixtures[k]].location]))

\* Lines 135-145: the locations of the worker fixtures, in list order, hashed.
computeWorkerRegistrationHash(fixtures) ==
  Sha1Hex(Flatten([k \in 1..Len(fixtures) |->
                     IF registrations[fixtures[k]].scope # "worker"
                       THEN <<>>
                     ELSE registrations[fixtures[k]].location]))

\* ------------------------------------------------- the configuration matrix

\* Lines 57-67: the loop over the fixtures still to visit, generatorConfigurations
\* being what the loop has built so far.
RECURSIVE ExpandFrom(_, _)
ExpandFrom(fixtures, generatorConfigurations) ==
  IF fixtures = <<>> THEN generatorConfigurations
  ELSE LET name == Head(fixtures)
       IN IF name \notin DOMAIN matrix
            THEN ExpandFrom(Tail(fixtures), generatorConfigurations)
          ELSE LET values == matrix[name]
                   state == IF Len(generatorConfigurations) # 0
                              THEN generatorConfigurations
                            ELSE << <<>> >>
                   pushed == Flatten([g \in 1..Len(state) |->
                               [v \in 1..Len(values) |->
                                  Append(state[g], [name |-> name, value |-> values[v]])]])
               IN ExpandFrom(Tail(fixtures), pushed)

\* Lines 54-71 without the fallback of lines 70-71.
ExpandWithoutFallback(fixtures) == ExpandFrom(fixtures, <<>>)

\* Lines 54-71: the configurations of a test, the empty one when there is none.
GeneratorConfigurations(fixtures) ==
  LET generatorConfigurations == ExpandFrom(fixtures, <<>>)
  IN IF Len(generatorConfigurations) = 0 THEN << <<>> >> ELSE generatorConfigurations

\* Lines 147-152.
serializeConfiguration(configuration) ==
  Join([k \in 1..Len(configuration) |->
          <<configuration[k].name, "=", configuration[k].value>>], <<", ">>)

\* Line 75 with the repeat token left out.
ConfigurationStringNoRepeat(configuration, i) == serializeConfiguration(configuration)

\* Line 75.
ConfigurationString(configuration, i) ==
  serializeConfiguration(configuration) \o <<"#repeat-", ToString(i), "#">>

\* Lines 75-80: one TestRun.
NewTestRun(test, configuration, i, registrationsHash) ==
  LET configurationString == ConfigurationString(configuration, i)
  IN [test |-> test,
      configuration |-> configuration,
      _configurationString |-> configurationString,
      _workerHash |-> registrationsHash \o <<"@">> \o configurationString]

\* Lines 52-83: the runs one pass creates for a test, in creation order.
NewRuns(test, fixtures) ==
  LET registrationsHash == computeWorkerRegistrationHash(fixtures)
      generatorConfigurations == GeneratorConfigurations(fixtures)
  IN Flatten([c \in 1..Len(generatorConfigurations) |->
                [r \in 1..config.repeatEach |->
                   NewTestRun(test, generatorConfigurations[c], r - 1, registrationsHash)]])

\* Line 81 as an assignment instead of a push.
ReplaceRuns(list, created) == created

\* Line 81, for all the runs of lines 73-83: test.runs.push(testRun).
PushRuns(list, created) == list \o created

\* ------------------------------------------------------- the declaration tree

Containers == SuiteIds \cup {ROOT}

\* The `suites` and `tests` lists of every suite, as the declarations of a
\* file build them: children in declaration order; the root starts empty.
TreeOf(par) ==
  [suites |-> [s \in Containers |-> SelectSeq(SuiteOrder, LAMBDA c : par[c] = s)],
   tests |-> [s \in Containers |-> SelectSeq(TestOrder, LAMBDA c : par[c] = s)]]

\* The ancestor suites of a declaration, outermost first.
RECURSIVE Ancestors(_)
Ancestors(d) == IF parent[d] = TOP THEN <<>> ELSE Append(Ancestors(parent[d]), parent[d])

\* test.fullTitle(): the suite titles and the test's own title, joined.
fullTitle(test) ==
  Join([k \in 1..Len(Ancestors(test)) + 1 |->
          IF k <= Len(Ancestors(test)) THEN title[Ancestors(test)[k]] ELSE title[test]],
       <<" ">>)

\* suite._allTests(), over the tree tr: the tests of the child suites, then
\* the suite's own.
RECURSIVE allTests(_, _)
allTests(suite, tr) ==
  Flatten([k \in 1..Len(tr.suites[suite]) |-> allTests(tr.suites[suite][k], tr)])
    \o tr.tests[suite]

\* Lines 91-100 with line 96 left out: the tests list is not narrowed.
RECURSIVE filterOnlyKeepingTests(_, _)
filterOnlyKeepingTests(suite, tr) ==
  LET children == tr.suites[suite]
      RECURSIVE visit(_, _, _)
      visit(k, t, kept) ==
        IF k > Len(children) THEN [tree |-> t, onlySuites |-> kept]
        ELSE LET sub == filterOnlyKeepingTests(children[k], t)
             IN visit(k + 1, sub.tree,
                      IF sub.result \/ only[children[k]]
                        THEN Append(kept, children[k]) ELSE kept)
      walked == visit(1, tr, <<>>)
      onlySuites == walked.onlySuites
      onlyTests == SelectSeq(tr.tests[suite], LAMBDA test : only[test])
  IN IF Len(onlySuites) # 0 \/ Len(onlyTests) # 0
       THEN [tree |-> [suites |-> [walked.tree.suites EXCEPT ![suite] = onlySuites],
                       tests |-> walked.tree.tests],
             result |-> TRUE]
     ELSE [tree |-> walked.tree, result |-> FALSE]

\* Lines 91-100. The filter callback of line 92 runs filterOnly on every child
\* in order, each call working on the tree the calls before it left; the
\* result is the tree afterwards and the returned boolean.
RECURSIVE filterOnly(_, _)
filterOnly(suite, tr) ==
  LET children == tr.suites[suite]
      RECURSIVE visit(_, _, _)
      visit(k, t, kept) ==
        IF k > Len(children) THEN [tree |-> t, onlySuites |-> kept]
        ELSE LET sub == filterOnly(children[k], t)
             IN visit(k + 1, sub.tree,
                      IF sub.result \/ only[children[k]]
                        THEN Append(kept, children[k]) ELSE kept)
      walked == visit(1, tr, <<>>)
      onlySuites == walked.onlySuites
      onlyTests == SelectSeq(tr.tests[suite], LAMBDA test : only[test])
  IN IF Len(onlySuites) # 0 \/ Len(onlyTests) # 0
       THEN [tree |-> [suites |-> [walked.tree.suites EXCEPT ![suite] = onlySuites],
                       tests |-> [walked.tree.tests EXCEPT ![suite] = onlyTests]],
             result |-> TRUE]
     ELSE [tree |-> walked.tree, result |-> FALSE]

\* ------------------------------------------------------------- generateTests

\* Lines 23-30: a new root suite, the grep pattern parsed.
Begin ==
  /\ pc = "idle"
  /\ calls < MaxCalls
  /\ tree' = [suites |-> [tree.suites EXCEPT ![ROOT] = <<>>],
              tests |-> [tree.tests EXCEPT ![ROOT] = <<>>]]
  /\ grep' = ParseGrep(config.grep)
  /\ si' = 1
  /\ pc' = "suites"
  /\ skipped' = {}
  /\ called' = {}
  /\ resolved' = [t \in TestIds |-> <<>>]
  /\ runsBefore' = runs
  /\ UNCHANGED <<inputs, registrations, runs, pending, calls, returned>>

\* Lines 31-39: the next suite; its registrations rerun, its tests listed.
EnterSuite ==
  /\ pc = "suites"
  /\ si <= Len(suites)
  /\ registrations' = RegistryOf(FileOf(suites[si]))
  /\ pending' = allTests(suites[si], tree)
  /\ pc' = "tests"
  /\ UNCHANGED <<inputs, tree, runs, grep, si, calls, skipped, resolved, called,
                 runsBefore, returned>>

\* Line 40: grep && !grep.test(test.fullTitle()).
GrepRejects(test) == grep.present /\ ~RegExpTest(grep, fullTitle(test)).result

GrepAfter(test) ==
  IF grep.present
    THEN [grep EXCEPT !.lastIndex = RegExpTest(grep, fullTitle(test)).lastIndex]
  ELSE grep

\* Lines 40-41: the test does not match and is skipped.
SkipTest ==
  /\ pc = "tests"
  /\ pending # <<>>
  /\ GrepRejects(Head(pending))
  /\ grep' = GrepAfter(Head(pending))
  /\ skipped' = skipped \cup {Head(pending)}
  /\ pending' = Tail(pending)
  /\ UNCHANGED <<inputs, registrations, tree, runs, pc, si, calls, resolved, called,
                 runsBefore, returned>>

\* Lines 40-83: the test matches; its fixtures are resolved, its runs created.
GenerateRuns ==
  /\ pc = "tests"
  /\ pending # <<>>
  /\ ~GrepRejects(Head(pending))
  /\ LET test == Head(pending)
         fixtures == Fixtures(test)
     IN /\ called' = called \cup {test}
        /\ resolved' = [resolved EXCEPT ![test] = fixtures]
        /\ runs' = [runs EXCEPT ![test] = PushRuns(runs[test], NewRuns(test, fixtures))]
  /\ grep' = GrepAfter(Head(pending))
  /\ pending' = Tail(pending)
  /\ UNCHANGED <<inputs, registrations, tree, pc, si, calls, skipped, runsBefore,
                 returned>>

\* Line 85: rootSuite._addSuite(suite), after the last test of the suite.
AddSuite ==
  /\ pc = "tests"
  /\ pending = <<>>
  /\ tree' = [tree EXCEPT !.suites[ROOT] = Append(tree.suites[ROOT], suites[si])]
  /\ si' = si + 1
  /\ pc' = "suites"
  /\ UNCHANGED <<inputs, registrations, runs, grep, pending, calls, skipped, resolved,
                 called, runsBefore, returned>>

\* Lines 87-88: filterOnly(rootSuite); return rootSuite.
Return ==
  /\ pc = "suites"
  /\ si > Len(suites)
  /\ tree' = filterOnly(ROOT, tree).tree
  /\ pc' = "idle"
  /\ calls' = calls + 1
  /\ returned' = Append(returned, runs)
  /\ UNCHANGED <<inputs, registrations, runs, grep, si, pending, skipped, resolved,
                 called, runsBefore>>

Next == Begin \/ EnterSuite \/ SkipTest \/ GenerateRuns \/ AddSuite \/ Return

\* ------------------------------------------------------------------- inputs

\* The state before the first call, for the given declarations and config.
Start(par, titles, onlys, fns, mat, cfg) ==
  /\ parent = par
  /\ title = titles
  /\ only = onlys
  /\ fn = fns
  /\ matrix = mat
  /\ config = cfg
  /\ suites = SelectSeq(SuiteOrder, LAMBDA c : par[c] = TOP)
  /\ tree = TreeOf(par)
  /\ registrations = RegistryOf("fileA")
  /\ runs = [t \in TestIds |-> <<>>]
  /\ grep = NoRegExp
  /\ pc = "idle"
  /\ si = 1
  /\ pending = <<>>
  /\ calls = 0
  /\ skipped = {}
  /\ called = {}
  /\ resolved = [t \in TestIds |-> <<>>]
  /\ runsBefore = [t \in TestIds |-> <<>>]
  /\ returned = <<>>

Declarations == SuiteIds \cup TestIds

\* Two files; s3 nested in the second.
TwoFiles ==
  [d \in Declarations |->
     IF d \in {"s1", "s2"} THEN TOP
     ELSE IF d = "s3" THEN "s2"
     ELSE IF d = "t3" THEN "s3" ELSE "s1"]

\* Every placement of s2, s3 and the three tests this model considers.
Shapes ==
  {par \in [Declarations -> SuiteIds \cup {TOP}] :
     /\ par["s1"] = TOP
     /\ par["s2"] \in {TOP, "s1"}
     /\ par["s3"] \in {"s1", "s2"}
     /\ par["t1"] = "s1"
     /\ par["t2"] \in SuiteIds
     /\ par["t3"] \in {"s2", "s3"}}

PlainTitles ==
  [d \in Declarations |->
     IF d \in {"s1", "t1"} THEN <<"a">> ELSE <<"b">>]

NoOnly == [d \in Declarations |-> FALSE]

Resolves(fixtures) == [throws |-> FALSE, fixtures |-> fixtures]
Fails(fixtures) == [throws |-> TRUE, fixtures |-> fixtures]

Domains == {<<>>, <<"c", "f">>}

Matrices == {[name \in {"g1", "g2"} |-> IF name = "g1" THEN d ELSE <<"m", "n">>] : d \in Domains}

RepeatCounts == 0..MaxRepeat

\* Fixture lists, grep and repeatEach vary; the tree is fixed.
InitGen ==
  \E f1 \in {Resolves(l) : l \in DistinctSeqs({"w1", "g1", "g2"})}
              \cup {Resolves(<<"w2", "w1">>), Fails(<<"g2">>), Fails(<<>>)},
     f2 \in {Resolves(l) : l \in DistinctSeqs({"w1", "w2", "p"})} \cup {Fails(<<"w1">>)},
     mat \in Matrices,
     rep \in RepeatCounts,
     g \in {<<>>, <<"a", " ">>} :
    Start(TwoFiles, PlainTitles, NoOnly,
          [t \in TestIds |-> IF t = "t1" THEN f1 ELSE IF t = "t2" THEN f2
                             ELSE Resolves(<<"w2", "w1">>)],
          mat, [grep |-> g, repeatEach |-> rep])

SpecGen == InitGen /\ [][Next]_vars

\* Grep patterns and titles vary; the tree and the fixtures are fixed.
Sources == {<<"a">>, <<"b">>, <<"a", "b">>, <<"A">>}

GrepInputs ==
  {<<>>, <<"/", "/">>, <<"/", "a">>}
    \cup Sources
    \cup {<<"/">> \o s \o <<"/">> : s \in Sources}
    \cup {<<"/">> \o s \o <<"/", "g">> : s \in Sources}
    \cup {<<"/">> \o s \o <<"/", "i">> : s \in Sources}

TestTitles == {<<"a">>, <<"b">>, <<"b", "a">>, <<"A", "b">>}

InitGrep ==
  \E tt \in [TestIds -> TestTitles], g \in GrepInputs :
    Start(TwoFiles,
          [d \in Declarations |-> IF d \in TestIds THEN tt[d] ELSE PlainTitles[d]],
          NoOnly,
          [t \in TestIds |-> IF t = "t1" THEN Resolves(<<"g2", "w1">>)
                             ELSE IF t = "t2" THEN Fails(<<"p">>)
                             ELSE Resolves(<<"w2">>)],
          [name \in {"g2"} |-> <<"m", "n">>],
          [grep |-> g, repeatEach |-> 1])

SpecGrep == InitGrep /\ [][Next]_vars

\* Tree shapes and exclusivity flags vary, with and without a grep pattern.
InitTree ==
  \E par \in Shapes, onlys \in [Declarations -> BOOLEAN], rep \in RepeatCounts,
     g \in {<<>>, <<"/", "a", "/">>} :
    Start(par, PlainTitles, onlys,
          [t \in TestIds |-> IF t = "t1" THEN Resolves(<<"g2", "w1">>)
                             ELSE IF t = "t2" THEN Fails(<<"p">>)
                             ELSE Resolves(<<"w2">>)],
          [name \in {"g2"} |-> <<"m", "n">>],
          [grep |-> g, repeatEach |-> rep])

SpecTree == InitTree /\ [][Next]_vars

\* ------------------------------------------------------------ what is checked

\* generateTests has returned at least once and no call is under way.
Returned == pc = "idle" /\ calls >= 1

FirstReturn == pc = "idle" /\ calls = 1

\* The runs the current call has appended to a test's run list.
CreatedRuns(t) == SubSeq(runs[t], Len(runsBefore[t]) + 1, Len(runs[t]))

ConfigurationStrings(list) == [k \in 1..Len(list) |-> list[k]._configurationString]

\* The generator fixtures of a fixture list, in list order.
Generators(fixtures) == SelectSeq(fixtures, LAMBDA name : name \in DOMAIN matrix)

RECURSIVE DomainProduct(_)
DomainProduct(gens) ==
  IF gens = <<>> THEN 1 ELSE Len(matrix[Head(gens)]) * DomainProduct(Tail(gens))

\* The cartesian product of the domains, the first fixture varying slowest.
RECURSIVE CartesianProduct(_)
CartesianProduct(gens) ==
  IF gens = <<>> THEN << <<>> >>
  ELSE LET rest == CartesianProduct(Tail(gens))
           values == matrix[Head(gens)]
       IN Flatten([v \in 1..Len(values) |->
                     [r \in 1..Len(rest) |->
                        <<[name |-> Head(gens), value |-> values[v]]>> \o rest[r]]])

\* name=value pairs joined by ', '.
RECURSIVE Rendered(_)
Rendered(c) ==
  IF c = <<>> THEN <<>>
  ELSE <<c[1].name, "=", c[1].value>>
         \o (IF Len(c) = 1 THEN <<>> ELSE <<", ">> \o Rendered(Tail(c)))

\* C1: after generateTests on empty run lists, every test that passed the grep
\* filter has d1 x ... x dk x repeatEach runs, d1..dk being the sizes of the
\* domains of the generator fixtures of its resolved fixture list.
C1_RunCount ==
  FirstReturn =>
    \A t \in called :
      Len(runs[t]) = DomainProduct(Generators(resolved[t])) * config.repeatEach

\* C2: the runs of a test are those of the cartesian product of its generator
\* domains (first fixture slowest, domains in declared order), each
\* configuration repeated for i = 0..repeatEach-1 in ascending order, with
\* the configuration string '<name=value, ...>#repeat-i#'.
C2_RunOrder ==
  FirstReturn =>
    \A t \in called :
      LET product == CartesianProduct(Generators(resolved[t]))
          expected == Flatten([c \in 1..Len(product) |->
                        [r \in 1..config.repeatEach |->
                           [configuration |-> product[c],
                            string |-> Rendered(product[c])
                                         \o <<"#repeat-", ToString(r - 1), "#">>]]])
      IN /\ Len(runs[t]) = Len(expected)
         /\ \A k \in 1..Len(expected) :
              /\ runs[t][k].configuration = expected[k].configuration
              /\ runs[t][k]._configurationString = expected[k].string

\* The title matches the pattern config.grep denotes, searched from the start
\* of the title.
TitleMatches(test) ==
  LET re == ParseGrep(config.grep)
  IN \E p \in 0..Len(fullTitle(test)) : MatchesAt(re, fullTitle(test), p)

\* C3: every test the pass has examined was included if and only if no
\* pattern was supplied or its full title matches the pattern, whatever
\* tests came before it; an excluded test gets no runs and its callback is
\* never handed to fixturesForCallback.
C3_IncludedIffMatches ==
  calls = 0 =>
    \A t \in called \cup skipped :
      /\ t \in called <=> (config.grep = <<>> \/ TitleMatches(t))
      /\ t \in skipped => (runs[t] = <<>> /\ t \notin called)

\* The top-level suite a declaration belongs to.
FileSuite(d) == IF parent[d] = TOP THEN d ELSE Head(Ancestors(d))

\* The locations of the worker-scoped fixtures of the fixture list the
\* current call resolved for a test, in list order, as its file registers them.
WorkerLocations(t) ==
  LET registry == RegistryOf(FileOf(FileSuite(t)))
      workers == SelectSeq(resolved[t], LAMBDA name : registry[name].scope = "worker")
  IN [k \in 1..Len(workers) |-> registry[workers[k]].location]

\* C4 as stated: runs of tests with the same set of worker-scoped fixture
\* locations and equal configuration strings have equal worker keys.
C4_KeyOfLocationSet ==
  Returned =>
    \A t, u \in called :
      \A i \in 1..Len(runs[t]), j \in 1..Len(runs[u]) :
        (/\ Range(WorkerLocations(t)) = Range(WorkerLocations(u))
         /\ runs[t][i]._configurationString = runs[u][j]._configurationString)
          => runs[t][i]._workerHash = runs[u][j]._workerHash

\* C4, amended: runs of tests with the same sequence of worker-scoped fixture
\* locations (in fixture-list order) and equal configuration strings have
\* equal worker keys, whatever their per-test fixtures.
C4_KeyOfLocationSequence ==
  Returned =>
    \A t, u \in called :
      \A i \in 1..Len(runs[t]), j \in 1..Len(runs[u]) :
        (/\ WorkerLocations(t) = WorkerLocations(u)
         /\ runs[t][i]._configurationString = runs[u][j]._configurationString)
          => runs[t][i]._workerHash = runs[u][j]._workerHash

\* Two tests with the same worker locations but different fixture lists
\* have runs with equal configuration strings.
C4_Witness ==
  /\ Returned
  /\ config.repeatEach >= 1
  /\ {"t1", "t2"} \subseteq called
  /\ WorkerLocations("t1") = WorkerLocations("t2")
  /\ WorkerLocations("t1") # <<>>
  /\ resolved["t1"] # resolved["t2"]
  /\ runs["t1"][1]._configurationString = runs["t2"][1]._configurationString

\* The part of a worker key before its first '@'.
HashPrefix(key) == SubSeq(key, 1, Min({k \in 1..Len(key) : key[k] = "@"}) - 1)

\* C6: the runs one pass creates for one configuration of a test are
\* repeatEach many, carry the same hash prefix and pairwise distinct worker
\* keys, each key being '<hash>@<configuration string>'.
C6_RepeatsHaveDistinctKeys ==
  \A t \in called :
    LET created == CreatedRuns(t)
    IN \A i \in 1..Len(created) :
         LET same == {j \in 1..Len(created) :
                        created[j].configuration = created[i].configuration}
         IN /\ Cardinality(same) = config.repeatEach
            /\ created[i]._workerHash =
                 HashPrefix(created[i]._workerHash) \o <<"@">>
                   \o created[i]._configurationString
            /\ \A j \in same :
                 /\ HashPrefix(created[j]._workerHash) = HashPrefix(created[i]._workerHash)
                 /\ j # i => created[j]._workerHash # created[i]._workerHash

\* A test with two configurations, each repeated MaxRepeat times.
C6_Witness ==
  /\ Returned
  /\ config.repeatEach >= 2
  /\ "t1" \in called
  /\ Len(CreatedRuns("t1")) = 2 * config.repeatEach
  /\ CreatedRuns("t1")[1].configuration = CreatedRuns("t1")[2].configuration
  /\ CreatedRuns("t1")[1].configuration # CreatedRuns("t1")[3].configuration

\* C8: a test whose fixture resolution fails receives exactly repeatEach runs
\* with the empty configuration and the pass completes; every other test
\* the pass processes receives the runs of its own fixture list.
C8_ResolutionFailureIsLocal ==
  Returned =>
    \A t \in called :
      LET created == CreatedRuns(t)
      IN IF fn[t].throws
           THEN /\ Len(created) = config.repeatEach
                /\ \A k \in 1..Len(created) :
                     /\ created[k].configuration = <<>>
                     /\ created[k]._configurationString
                          = <<"#repeat-", ToString(k - 1), "#">>
         ELSE LET gc == GeneratorConfigurations(fn[t].fixtures)
              IN /\ Len(created) = Len(gc) * config.repeatEach
                 /\ \A c \in 1..Len(gc), r \in 1..config.repeatEach :
                      created[(c - 1) * config.repeatEach + r].configuration = gc[c]

\* A pass in which the resolution failed for t1, whose callback names a
\* generator fixture, and another test got its runs.
C8_Witness ==
  /\ Returned
  /\ config.repeatEach >= 1
  /\ fn["t1"].throws /\ fn["t1"].fixtures # <<>>
  /\ "t1" \in called
  /\ Len(CreatedRuns("t1")) = config.repeatEach
  /\ "t3" \in called /\ Len(CreatedRuns("t3")) >= 1

\* The suites reachable from a suite through the `suites` lists, itself included.
RECURSIVE ReachableSuites(_)
ReachableSuites(s) ==
  {s} \cup UNION {ReachableSuites(tree.suites[s][k]) : k \in 1..Len(tree.suites[s])}

\* The tests still reachable from the returned root.
SurvivingTests == UNION {Range(tree.tests[s]) : s \in ReachableSuites(ROOT)}

OnlyTests == {t \in TestIds : only[t]}

\* C5 as stated: with exactly one exclusive test, the returned tree holds
\* the chain of its ancestor suites and that test, nothing else.
C5_OneExclusiveTest ==
  (Returned /\ Cardinality(OnlyTests) = 1) =>
    \A t \in OnlyTests :
      /\ SurvivingTests = {t}
      /\ ReachableSuites(ROOT) = {ROOT} \cup Range(Ancestors(t))

\* C5, amended: with exactly one exclusive test and no exclusive suite, the
\* returned tree holds the chain of its ancestor suites and that test,
\* nothing else.
C5_OneExclusiveDeclaration ==
  (Returned /\ Cardinality(OnlyTests) = 1 /\ \A s \in SuiteIds : ~only[s]) =>
    \A t \in OnlyTests :
      /\ SurvivingTests = {t}
      /\ ReachableSuites(ROOT) = {ROOT} \cup Range(Ancestors(t))

\* The only exclusive declaration is t2, nested two suites deep beside
\* another test, and a suite outside its chain has been pruned.
C5_Witness ==
  /\ Returned
  /\ OnlyTests = {"t2"}
  /\ \A s \in SuiteIds : ~only[s]
  /\ Len(Ancestors("t2")) = 2
  /\ \E t \in TestIds \ {"t2"} : parent[t] = parent["t2"]
  /\ SurvivingTests = {"t2"}
  /\ ReachableSuites(ROOT) # Containers

\* C7 as stated: every test of the returned tree has a non-empty run list.
C7_SurvivorsHaveRuns ==
  Returned => \A t \in SurvivingTests : runs[t] # <<>>

\* C7, amended: when repeatEach >= 1, every test of the returned tree that
\* the grep check of the call did not skip has a non-empty run list.
C7_ProcessedSurvivorsHaveRuns ==
  (Returned /\ config.repeatEach >= 1) =>
    \A t \in SurvivingTests \ skipped : t \in called /\ runs[t] # <<>>

\* An exclusive test without generator fixtures survives with runs while a
\* test the grep check skipped survives without any.
C7_Witness ==
  /\ FirstReturn
  /\ config.repeatEach >= 1
  /\ only["t2"] /\ "t2" \in SurvivingTests \ skipped
  /\ Len(runs["t2"]) = config.repeatEach
  /\ \E t \in SurvivingTests \cap skipped : runs[t] = <<>>

\* C9 as stated: after a second call with the same arguments every run list
\* holds the runs of one pass only, with the configuration strings of the
\* first call in the same order.
C9_RunsReplaced ==
  (pc = "idle" /\ calls >= 2) =>
    \A t \in TestIds :
      ConfigurationStrings(runs[t]) = ConfigurationStrings(returned[1][t])

\* C9, amended: a later call appends to the run lists the earlier calls left:
\* every test it processes keeps all its earlier runs, followed by the new
\* ones, which for a test the first call gave runs carry the configuration
\* strings of the first call in the same order.
C9_RunsAccumulate ==
  (pc = "idle" /\ calls >= 2) =>
    \A t \in called :
      /\ runs[t] = returned[calls - 1][t] \o CreatedRuns(t)
      /\ returned[1][t] # <<>> =>
           ConfigurationStrings(CreatedRuns(t)) = ConfigurationStrings(returned[1][t])

\* A second call has returned and a test with several configurations holds
\* the runs of both calls.
C9_Witness ==
  /\ pc = "idle" /\ calls = 2
  /\ "t1" \in called
  /\ Len(returned[1]["t1"]) >= 4
  /\ Len(runs["t1"]) = 2 * Len(returned[1]["t1"])

\* C10: if any declaration is exclusive, every test of the returned tree is
\* exclusive or has an exclusive ancestor suite.
C10_SurvivorsAreExclusive ==
  (Returned /\ \E d \in Declarations : only[d]) =>
    \A t \in SurvivingTests :
      only[t] \/ \E k \in 1..Len(Ancestors(t)) : only[Ancestors(t)[k]]

\* A test survives through an exclusive ancestor alone, next to an exclusive
\* test whose plain sibling was pruned.
C10_Witness ==
  /\ Returned
  /\ \E t \in SurvivingTests :
       ~only[t] /\ ~only[parent[t]] /\ \E k \in 1..Len(Ancestors(t)) : only[Ancestors(t)[k]]
  /\ \E t \in SurvivingTests, u \in TestIds \ SurvivingTests :
       only[t] /\ parent[u] = parent[t]

====
